---- MODULE Spec2Model ----
(***************************************************************************)
(* A model of the PII redaction service (HanzlaAli/redact-pii).            *)
(*                                                                         *)
(* One HTTP request at a time is followed through the Flask handler        *)
(* (app.py), the orchestrator PiiRedactionService.redact_pii and the four  *)
(* stages it sequences: OCR extraction, PII detection, matching and        *)
(* rendering.  The OCR engine and the Azure language service are the       *)
(* environment: what they answer is drawn from the sets OcrResponses and   *)
(* PiiResponses.  Python exceptions are modelled as results of kind        *)
(* "raise" that carry the exception.                                       *)
(***************************************************************************)
EXTENDS Integers, Sequences, FiniteSets, TLC

(***************************************************************************)
(* Bounds of the model.                                                    *)
(***************************************************************************)
\* Number of requests the server is followed through.
MaxRequests == 2
\* Width and height, in pixels, of the images that are uploaded.
GridW == 4
GridH == 3

(***************************************************************************)
(* Python results: a value returned, or an exception raised.               *)
(***************************************************************************)
Ok(v) == [kind |-> "ok", value |-> v]
Raise(e) == [kind |-> "raise", error |-> e]

(***************************************************************************)
(* Python str operations, on TLA+ strings.                                 *)
(***************************************************************************)
UpperChars == "ABCDEFGHIJKLMNOPQRSTUVWXYZ"
LowerChars == "abcdefghijklmnopqrstuvwxyz"

CharAt(s, i) == SubSeq(s, i, i)

\* str.lower() on one character (ASCII letters; every other character is kept).
LowerChar(c) ==
    IF \E i \in 1..Len(UpperChars) : CharAt(UpperChars, i) = c
    THEN CharAt(LowerChars, CHOOSE i \in 1..Len(UpperChars) : CharAt(UpperChars, i) = c)
    ELSE c

RECURSIVE LowerFrom(_, _)
LowerFrom(s, i) ==
    IF i > Len(s) THEN ""
    ELSE LowerChar(CharAt(s, i)) \o LowerFrom(s, i + 1)

\* str.lower()
lower(s) == LowerFrom(s, 1)

\* Python's `a in b` for strings.
IsSubstring(a, b) ==
    \E i \in 0..(Len(b) - Len(a)) : SubSeq(b, i + 1, i + Len(a)) = a

IsSpace(c) == c \in {" ", "\t", "\n"}

SetMin(S) == CHOOSE m \in S : \A v \in S : m <= v
SetMax(S) == CHOOSE m \in S : \A v \in S : m >= v

\* The k-th smallest element of a set of numbers.
Kth(S, k) == CHOOSE x \in S : Cardinality({y \in S : y <= x}) = k

\* str.strip(): leading and trailing whitespace removed.
strip(s) ==
    LET solid == {i \in 1..Len(s) : ~IsSpace(CharAt(s, i))}
    IN IF solid = {} THEN "" ELSE SubSeq(s, SetMin(solid), SetMax(solid))

\* str.split() without a separator: the maximal runs of non-whitespace, in order.
split(s) ==
    LET solid == {i \in 1..Len(s) : ~IsSpace(CharAt(s, i))}
        starts == {i \in solid : i - 1 \notin solid}
        ends == {i \in solid : i + 1 \notin solid}
    IN [k \in 1..Cardinality(starts) |-> SubSeq(s, Kth(starts, k), Kth(ends, k))]

\* str.rsplit('.', 1)[1]: what follows the last dot (the string has a dot).
AfterLastDot(s) ==
    LET last == CHOOSE i \in 1..Len(s) :
                    /\ CharAt(s, i) = "."
                    /\ \A j \in (i + 1)..Len(s) : CharAt(s, j) # "."
    IN SubSeq(s, last + 1, Len(s))

(***************************************************************************)
(* models/__init__.py                                                      *)
(***************************************************************************)
BoundingBox(x, y, width, height) ==
    [x |-> x, y |-> y, width |-> width, height |-> height]

\* A box anchored at the polygon's first point instead of its minimum.
from_polygon_first_point(polygon) ==
    IF Len(polygon) < 8
    THEN Raise("ValueError: Polygon must have at least 4 points (8 coordinates)")
    ELSE LET x_coords == {polygon[i] : i \in {j \in 1..Len(polygon) : j % 2 = 1}}
             y_coords == {polygon[i] : i \in {j \in 1..Len(polygon) : j % 2 = 0}}
         IN Ok(BoundingBox(polygon[1], polygon[2],
                           SetMax(x_coords) - polygon[1], SetMax(y_coords) - polygon[2]))

\* BoundingBox.from_polygon: polygon is the flat list x1, y1, x2, y2, ...
from_polygon(polygon) ==
    IF Len(polygon) < 8
    THEN Raise("ValueError: Polygon must have at least 4 points (8 coordinates)")
    ELSE LET x_coords == {polygon[i] : i \in {j \in 1..Len(polygon) : j % 2 = 1}}
             y_coords == {polygon[i] : i \in {j \in 1..Len(polygon) : j % 2 = 0}}
             x == SetMin(x_coords)
             y == SetMin(y_coords)
         IN Ok(BoundingBox(x, y, SetMax(x_coords) - x, SetMax(y_coords) - y))

DocumentWord(content, bounding_box, confidence) ==
    [content |-> content, bounding_box |-> bounding_box, confidence |-> confidence]

\* DocumentWord is declared with a plain @dataclass: eq=True without frozen=True
\* or unsafe_hash=True sets __hash__ to None, so its instances are unhashable.
DocumentWordIsHashable == FALSE

ImageRedactionResult(content, content_type) ==
    [content |-> content, content_type |-> content_type]

(***************************************************************************)
(* services/text_extraction_service.py                                     *)
(*                                                                         *)
(* An OCR response is what DocumentAnalysisClient answers for the image:   *)
(* it raises, or it gives the full text and, page by page, the words with  *)
(* their polygons (sequences of points <<x, y>>).                          *)
(***************************************************************************)
Range(seq) == {seq[i] : i \in 1..Len(seq)}

RECURSIVE Flatten(_)
Flatten(seqs) ==
    IF Len(seqs) = 0 THEN <<>> ELSE Head(seqs) \o Flatten(Tail(seqs))

\* [coord for point in word.polygon for coord in (point.x, point.y)]
PolygonCoords(points) == Flatten(points)

\* for page in result.pages: for word in page.words
PageWords(ocr_response) == Flatten(ocr_response.pages)

\* An extraction that drops the words whose polygon is too short and returns the rest.
extract_text_skipping_malformed(ocr_response) ==
    IF ocr_response.raises
    THEN Raise(ocr_response.error)
    ELSE LET all_words == PageWords(ocr_response)
             good == {i \in 1..Len(all_words) :
                        from_polygon(PolygonCoords(all_words[i].polygon)).kind = "ok"}
             azure_words == [k \in 1..Cardinality(good) |-> all_words[Kth(good, k)]]
         IN Ok([full_text |-> ocr_response.content,
                words |-> [i \in 1..Len(azure_words) |->
                              DocumentWord(azure_words[i].content,
                                           from_polygon(PolygonCoords(azure_words[i].polygon)).value,
                                           azure_words[i].confidence)]])

extract_text_from_image(ocr_response) ==
    IF ocr_response.raises
    THEN Raise(ocr_response.error)
    ELSE LET azure_words == PageWords(ocr_response)
             boxes == [i \in 1..Len(azure_words) |->
                          from_polygon(PolygonCoords(azure_words[i].polygon))]
             bad == {i \in 1..Len(azure_words) : boxes[i].kind = "raise"}
         IN IF bad # {}
            THEN Raise(boxes[SetMin(bad)].error)
            ELSE Ok([full_text |-> ocr_response.content,
                     words |-> [i \in 1..Len(azure_words) |->
                                   DocumentWord(azure_words[i].content,
                                                boxes[i].value,
                                                azure_words[i].confidence)]])

(***************************************************************************)
(* providers/azure_pii_detection_provider.py                               *)
(*                                                                         *)
(* A PII response is what TextAnalyticsClient.recognize_pii_entities       *)
(* answers: it raises, or it gives one result per document, each either    *)
(* an error result (is_error) or a list of entity texts.                   *)
(***************************************************************************)
RECURSIVE DocEntities(_)
DocEntities(docs) ==
    IF Len(docs) = 0 THEN <<>>
    ELSE (IF ~Head(docs).is_error THEN Head(docs).entities ELSE <<>>)
         \o DocEntities(Tail(docs))

detect_pii(pii_response) ==
    IF pii_response.raises
    THEN Raise(pii_response.error)
    ELSE Ok(DocEntities(pii_response.docs))

(***************************************************************************)
(* services/pii_detection_service.py                                       *)
(***************************************************************************)
extract_pii(pii_response) ==
    LET r == detect_pii(pii_response)
    IN IF r.kind = "raise" THEN r ELSE Ok(Range(r.value))

\* [component.strip() for component in pii_value.strip().split() if component.strip()]
PiiComponents(pii_value) ==
    LET parts == split(strip(pii_value))
        kept == {k \in 1..Len(parts) : strip(parts[k]) # ""}
    IN [j \in 1..Cardinality(kept) |-> strip(parts[Kth(kept, j)])]

\* component.lower() in word.content.lower() or word.content.lower() in component.lower()
ComponentMatches(component, word) ==
    \/ IsSubstring(lower(component), lower(word.content))
    \/ IsSubstring(lower(word.content), lower(component))

\* The positions, in extracted_words, of the words the loops reach .add(word) for.
MatchingWordIndexes(extracted_words, pii_values) ==
    {i \in 1..Len(extracted_words) :
        \E p \in pii_values :
            \E k \in 1..Len(PiiComponents(p)) :
                ComponentMatches(PiiComponents(p)[k], extracted_words[i])}

\* The distinct word values among the hits, in the order of their first position
\* (one of the orders list(set) can give).
RECURSIVE DistinctWords(_, _, _)
DistinctWords(extracted_words, hits, i) ==
    IF i > Len(extracted_words) THEN <<>>
    ELSE (IF /\ i \in hits
             /\ \A j \in 1..(i - 1) : j \in hits => extracted_words[j] # extracted_words[i]
          THEN <<extracted_words[i]>> ELSE <<>>)
         \o DistinctWords(extracted_words, hits, i + 1)

\* words_containing_pii is a set: the first .add(word) hashes the word.
get_words_containing_pii(extracted_words, pii_values) ==
    LET hits == MatchingWordIndexes(extracted_words, pii_values)
    IN IF hits = {}
       THEN Ok(<<>>)
       ELSE IF ~DocumentWordIsHashable
            THEN Raise("TypeError: unhashable type: 'DocumentWord'")
            ELSE Ok(DistinctWords(extracted_words, hits, 1))

(***************************************************************************)
(* services/image_redaction_service.py                                     *)
(*                                                                         *)
(* Image bytes are a record: whether they are empty, whether PIL can       *)
(* decode them, the file format and, when decodable, the colour mode, the  *)
(* palette (mode P) and the pixel of every point of the grid.              *)
(***************************************************************************)
Grid == (0..(GridW - 1)) \X (0..(GridH - 1))

Black == <<0, 0, 0>>

\* Image.convert('RGB'), pixel by pixel.
\* A conversion that takes the index of an indexed pixel for a grey level.
ConvertPixelIgnoringPalette(mode, palette, v) ==
    CASE mode = "RGB"  -> v
      [] mode = "RGBA" -> <<v[1], v[2], v[3]>>
      [] mode = "L"    -> <<v[1], v[1], v[1]>>
      [] mode = "P"    -> <<v[1], v[1], v[1]>>

ConvertPixelToRGB(mode, palette, v) ==
    CASE mode = "RGB"  -> v
      [] mode = "RGBA" -> <<v[1], v[2], v[3]>>
      [] mode = "L"    -> <<v[1], v[1], v[1]>>
      [] mode = "P"    -> palette[v[1]]

\* A decoder that hands back every pixel with its first and last channel swapped.
OpenAsBGR(bytes) ==
    LET rgb == IF bytes.mode # "RGB"
               THEN [p \in Grid |-> ConvertPixelToRGB(bytes.mode, bytes.palette, bytes.px[p])]
               ELSE bytes.px
    IN [p \in Grid |-> <<rgb[p][3], rgb[p][2], rgb[p][1]>>]

\* Image.open(...) followed by the conversion to RGB when the mode is not RGB.
OpenAsRGB(bytes) ==
    IF bytes.mode # "RGB"
    THEN [p \in Grid |-> ConvertPixelToRGB(bytes.mode, bytes.palette, bytes.px[p])]
    ELSE bytes.px

\* A rectangle that leaves out its right and bottom edge.
InRectangleHalfOpen(p, bbox) ==
    /\ bbox.x <= p[1] /\ p[1] < bbox.x + bbox.width
    /\ bbox.y <= p[2] /\ p[2] < bbox.y + bbox.height

\* draw.rectangle([x, y, x + width, y + height], fill='black'): both corners included.
InRectangle(p, bbox) ==
    /\ bbox.x <= p[1] /\ p[1] <= bbox.x + bbox.width
    /\ bbox.y <= p[2] /\ p[2] <= bbox.y + bbox.height

\* One draw.rectangle(rectangle, fill='black') on the image.
DrawRectangle(px, bbox) ==
    [p \in Grid |-> IF InRectangle(p, bbox) THEN Black ELSE px[p]]

\* for bbox in redaction_areas: draw.rectangle(...), one after the other.
RECURSIVE DrawRectangles(_, _)
DrawRectangles(px, redaction_areas) ==
    IF Len(redaction_areas) = 0 THEN px
    ELSE DrawRectangles(DrawRectangle(px, Head(redaction_areas)), Tail(redaction_areas))

\* image.save(output_buffer, format='PNG')
SavePNG(px) ==
    [empty |-> FALSE, decodable |-> TRUE, format |-> "PNG", mode |-> "RGB",
     palette |-> <<>>, px |-> px]

redact_image(source_image_bytes, redaction_areas) ==
    IF ~source_image_bytes.decodable
    THEN Raise("UnidentifiedImageError: cannot identify image file")
    ELSE Ok(ImageRedactionResult(
                SavePNG(DrawRectangles(OpenAsRGB(source_image_bytes), redaction_areas)),
                "image/png"))

(***************************************************************************)
(* config.py and the request checks of app.py                              *)
(***************************************************************************)
MAX_CONTENT_LENGTH == 16 * 1024 * 1024
ALLOWED_EXTENSIONS == {"png", "jpg", "jpeg", "bmp", "gif", "tiff"}

\* allowed_file without the .lower() of the extension.
allowed_file_case_sensitive(filename) ==
    /\ IsSubstring(".", filename)
    /\ AfterLastDot(filename) \in ALLOWED_EXTENSIONS

allowed_file(filename) ==
    /\ IsSubstring(".", filename)
    /\ lower(AfterLastDot(filename)) \in ALLOWED_EXTENSIONS

(***************************************************************************)
(* The environment: uploaded files, requests, and what the two cloud       *)
(* services answer.                                                        *)
(***************************************************************************)
NoPixels == [p \in Grid |-> <<>>]

EmptyBytes ==
    [empty |-> TRUE, decodable |-> FALSE, format |-> "", mode |-> "",
     palette |-> <<>>, px |-> NoPixels]

\* Bytes that are no image PIL can identify (e.g. a PDF the OCR service reads).
NotAnImage ==
    [empty |-> FALSE, decodable |-> FALSE, format |-> "PDF", mode |-> "",
     palette |-> <<>>, px |-> NoPixels]

ImageRGB ==
    [empty |-> FALSE, decodable |-> TRUE, format |-> "JPEG", mode |-> "RGB",
     palette |-> <<>>, px |-> [p \in Grid |-> <<200 + p[1], 100 + p[2], 50>>]]

ImageRGBA ==
    [empty |-> FALSE, decodable |-> TRUE, format |-> "PNG", mode |-> "RGBA",
     palette |-> <<>>, px |-> [p \in Grid |-> <<10 + p[1], 20 + p[2], 30, 128>>]]

ImageL ==
    [empty |-> FALSE, decodable |-> TRUE, format |-> "BMP", mode |-> "L",
     palette |-> <<>>, px |-> [p \in Grid |-> <<40 + p[1] + p[2]>>]]

ImageP ==
    [empty |-> FALSE, decodable |-> TRUE, format |-> "GIF", mode |-> "P",
     palette |-> << <<255, 255, 255>>, <<255, 0, 0>> >>,
     px |-> [p \in Grid |-> <<1 + ((p[1] + p[2]) % 2)>>]]

FileContents == {EmptyBytes, NotAnImage, ImageRGB, ImageRGBA, ImageL, ImageP}

Filenames == {"", "scan.png", "scan.PNG", "scan.txt", "scan", "scan.", "a.tar.gif"}

ContentLengths == {1024, MAX_CONTENT_LENGTH, MAX_CONTENT_LENGTH + 1}

Requests ==
    [has_file : {TRUE}, filename : Filenames, content : FileContents,
     content_length : ContentLengths]
    \cup
    [has_file : {FALSE}, filename : {""}, content : {EmptyBytes},
     content_length : ContentLengths]

\* The four corners of the axis-aligned quadrilateral (x0, y0)..(x1, y1).
Quad(x0, y0, x1, y1) == << <<x0, y0>>, <<x1, y0>>, <<x1, y1>>, <<x0, y1>> >>

AzureWord(content, polygon) ==
    [content |-> content, polygon |-> polygon, confidence |-> 99]

OcrOk(content, pages) ==
    [raises |-> FALSE, error |-> "", content |-> content, pages |-> pages]

OcrResponses ==
    { [raises |-> TRUE, error |-> "HttpResponseError: document analysis failed",
       content |-> "", pages |-> <<>>],
      OcrOk("", <<>>),
      OcrOk("SSN: 123-45-6789",
            << << AzureWord("SSN:", Quad(0, 0, 1, 0)),
                  AzureWord("123-45-6789", Quad(2, 1, 3, 2)) >> >>),
      OcrOk("Jane Smith Street",
            << << AzureWord("Jane", Quad(0, 0, 1, 0)) >>,
               << AzureWord("Smith", Quad(2, 0, 3, 0)),
                  AzureWord("Street", Quad(0, 2, 2, 2)) >> >>),
      OcrOk("JOHN", << << AzureWord("JOHN", << <<1, 0>>, <<3, 1>>, <<2, 2>>, <<0, 1>> >>) >> >>),
      OcrOk("Jane Jane",
            << << AzureWord("Jane", Quad(0, 0, 1, 0)),
                  AzureWord("Jane", Quad(0, 0, 1, 0)) >> >>),
      OcrOk("Jane",
            << << AzureWord("", Quad(3, 2, 3, 2)),
                  AzureWord("Jane", Quad(0, 0, 1, 0)) >> >>),
      OcrOk("Jane Smith",
            << << AzureWord("Jane", Quad(0, 0, 1, 0)),
                  AzureWord("Smith", << <<2, 0>>, <<3, 0>>, <<3, 1>> >>) >> >>) }

PiiOk(docs) == [raises |-> FALSE, error |-> "", docs |-> docs]

PiiDoc(entities) == [is_error |-> FALSE, entities |-> entities]

PiiDocError == [is_error |-> TRUE, entities |-> <<>>]

PiiResponses ==
    { [raises |-> TRUE, error |-> "HttpResponseError: language service failed",
       docs |-> <<>>],
      PiiOk(<<PiiDocError>>),
      PiiOk(<<PiiDoc(<<>>)>>),
      PiiOk(<<PiiDoc(<<"123-45-6789">>)>>),
      PiiOk(<<PiiDoc(<<"Jane Smith">>)>>),
      PiiOk(<<PiiDoc(<<"john">>)>>),
      PiiOk(<<PiiDoc(<<"Jane Smith", "Jane", "Jane">>)>>),
      PiiOk(<<PiiDoc(<<" ", "", "\t ">>)>>),
      PiiOk(<<PiiDoc(<<"Zoe">>)>>) }

(***************************************************************************)
(* State.                                                                  *)
(***************************************************************************)
VARIABLES
    served,           \* requests answered so far
    hpc,              \* the Flask handler: "idle", "pipeline" while redact_pii runs,
                      \* "responded" once the answer is sent
    request,          \* the request being (or last) handled
    response,         \* the answer to it
    invocations,      \* calls of PiiRedactionService.redact_pii for this request
    pc,               \* the orchestrator: Idle, Extracting, Detecting, Matching,
                      \* Rendering, Done, Failed
    ocr_response,     \* what the OCR service answered
    pii_response,     \* what the language service answered
    detect_input,     \* the text handed to the detector
    full_text,        \* redact_pii's locals
    extracted_words,
    pii_values,
    match_result,     \* what get_words_containing_pii returned or raised
    redaction_areas,
    render_input,     \* the regions handed to redact_image
    result,           \* the ImageRedactionResult of the renderer
    error,            \* the exception redact_pii raises
    log,              \* the stages called, in order
    completed,        \* the stages that returned without raising
    call              \* a direct call of from_polygon or redact_image, outside any
                      \* request: its arguments and what it returned or raised

hostVars == <<served, hpc, request, response, invocations>>
pipeVars == <<pc, ocr_response, pii_response, detect_input, full_text, extracted_words,
              pii_values, match_result, redaction_areas, render_input, result, error, log, completed>>
vars == <<hostVars, pipeVars, call>>

None == [kind |-> "none"]

Terminal == {"Done", "Failed"}

\* The server has started and no request has arrived.
ServerStarted ==
    /\ served = 0
    /\ hpc = "idle"
    /\ request = None
    /\ response = None
    /\ invocations = 0
    /\ pc = "Idle"
    /\ ocr_response = None
    /\ pii_response = None
    /\ detect_input = ""
    /\ full_text = ""
    /\ extracted_words = <<>>
    /\ pii_values = {}
    /\ match_result = None
    /\ redaction_areas = <<>>
    /\ render_input = <<>>
    /\ result = None
    /\ error = ""
    /\ log = <<>>
    /\ completed = {}

Init ==
    /\ ServerStarted
    /\ call = None

(***************************************************************************)
(* app.py: the handler of POST /redact-pii                                 *)
(***************************************************************************)
JsonError(status, message) ==
    [kind |-> "json", status |-> status, error |-> message]

\* send_file(io.BytesIO(redacted_image_bytes), mimetype=content_type, ...)
SendFile(content, content_type) ==
    [kind |-> "file", status |-> 200, body |-> content, mimetype |-> content_type]

\* except Exception as e: return jsonify({'error': f'An error occurred: {str(e)}'}), 500
InternalError(e) == JsonError(500, "An error occurred: " \o e)

\* Reading request.files parses the body: Werkzeug raises RequestEntityTooLarge
\* when the content length exceeds MAX_CONTENT_LENGTH.  The read is inside the
\* handler's try block, whose except Exception clause answers it.
RequestFiles(req) ==
    IF req.content_length > MAX_CONTENT_LENGTH
    THEN Raise("413 Request Entity Too Large: The data value transmitted exceeds the capacity limit.")
    ELSE Ok(req.has_file)

\* The checks of the handler before the pipeline is called: the response of an
\* early return, or None when every check passes.
EarlyReturn(req) ==
    LET files == RequestFiles(req)
    IN IF files.kind = "raise" THEN InternalError(files.error)
       ELSE IF ~files.value THEN JsonError(400, "No file part in the request")
       ELSE IF req.filename = "" THEN JsonError(400, "No file selected")
       ELSE IF ~allowed_file(req.filename) THEN JsonError(400, "File type not allowed")
       ELSE IF req.content.empty THEN JsonError(400, "Empty file")
       ELSE None

\* A request arrives and the handler runs up to its first return or to the call
\* of redaction_service.redact_pii(file_content).
HandleRequest ==
    /\ hpc = "idle"
    /\ served < MaxRequests
    /\ \E req \in Requests :
        LET early == EarlyReturn(req)
        IN /\ request' = req
           /\ response' = early
           /\ hpc' = IF early = None THEN "pipeline" ELSE "responded"
           /\ invocations' = IF early = None THEN 1 ELSE 0
           /\ pc' = IF early = None THEN "Extracting" ELSE "Idle"
    /\ UNCHANGED <<call, served, ocr_response, pii_response, detect_input, full_text,
                   extracted_words, pii_values, match_result, redaction_areas, render_input, result,
                   error, log, completed>>

\* redact_pii has returned or raised: the handler sends the file or the 500 answer.
Respond ==
    /\ hpc = "pipeline"
    /\ pc \in Terminal
    /\ response' = IF pc = "Done"
                   THEN SendFile(result.content, result.content_type)
                   ELSE InternalError(error)
    /\ hpc' = "responded"
    /\ UNCHANGED <<served, request, invocations, pipeVars, call>>

\* The request is over: nothing of it is kept for the next one (the services are
\* built per request by get_redaction_service and hold no state of their own).
Finish ==
    /\ hpc = "responded"
    /\ served' = served + 1
    /\ hpc' = "idle"
    /\ request' = None
    /\ response' = None
    /\ invocations' = 0
    /\ pc' = "Idle"
    /\ ocr_response' = None
    /\ pii_response' = None
    /\ detect_input' = ""
    /\ full_text' = ""
    /\ extracted_words' = <<>>
    /\ pii_values' = {}
    /\ match_result' = None
    /\ redaction_areas' = <<>>
    /\ render_input' = <<>>
    /\ result' = None
    /\ error' = ""
    /\ log' = <<>>
    /\ completed' = {}
    /\ UNCHANGED call

(***************************************************************************)
(* services/pii_redaction_service.py: PiiRedactionService.redact_pii       *)
(***************************************************************************)
\* The exception replaced by a new one that wraps its message.
Wrapped(e) == "RuntimeError: " \o e

\* except Exception as e: ...; raise  -- the exception of the stage, re-raised.
Reraised(e) == e

\* A failed extraction swallowed: the orchestrator goes on to detection.
SwallowExtractionFailure(stage) == IF stage = "ocr" THEN "Detecting" ELSE "Failed"

\* Where the orchestrator goes when a stage raises: the exception leaves redact_pii.
OnStageFailure(stage) == "Failed"

\* The matcher called whatever the detector returned.
AlwaysMatch(values) == "Matching"

\* if pii_values: ... else: ...  -- an empty set skips the matcher.
AfterDetection(values) == IF values # {} THEN "Matching" ELSE "Rendering"

\* Step 1: self.text_extraction_service.extract_text_from_image(source_image_bytes)
Extract ==
    /\ pc = "Extracting"
    /\ \E o \in OcrResponses :
        LET r == extract_text_from_image(o)
        IN /\ ocr_response' = o
           /\ log' = Append(log, "ocr")
           /\ IF r.kind = "ok"
              THEN /\ full_text' = r.value.full_text
                   /\ extracted_words' = r.value.words
                   /\ completed' = completed \cup {"ocr"}
                   /\ pc' = "Detecting"
                   /\ error' = error
              ELSE /\ error' = Reraised(r.error)
                   /\ pc' = OnStageFailure("ocr")
                   /\ UNCHANGED <<full_text, extracted_words, completed>>
    /\ UNCHANGED <<call, hostVars, pii_response, detect_input, pii_values, match_result,
                   redaction_areas,
                   render_input, result>>

\* Step 2: self.pii_detection_service.extract_pii(full_text)
Detect ==
    /\ pc = "Detecting"
    /\ \E d \in PiiResponses :
        LET r == extract_pii(d)
        IN /\ pii_response' = d
           /\ detect_input' = full_text
           /\ log' = Append(log, "detect")
           /\ IF r.kind = "ok"
              THEN /\ pii_values' = r.value
                   /\ completed' = completed \cup {"detect"}
                   /\ pc' = AfterDetection(r.value)
                   /\ error' = error
              ELSE /\ error' = Reraised(r.error)
                   /\ pc' = OnStageFailure("detect")
                   /\ UNCHANGED <<pii_values, completed>>
    /\ UNCHANGED <<call, hostVars, ocr_response, full_text, extracted_words, match_result,
                   redaction_areas,
                   render_input, result>>

\* Step 3: get_words_containing_pii(extracted_words, pii_values), then
\* redaction_areas = [word.bounding_box for word in words_containing_pii]
Match ==
    /\ pc = "Matching"
    /\ LET r == get_words_containing_pii(extracted_words, pii_values)
       IN /\ match_result' = r
          /\ log' = Append(log, "match")
          /\ IF r.kind = "ok"
             THEN /\ redaction_areas' = [i \in 1..Len(r.value) |-> r.value[i].bounding_box]
                  /\ completed' = completed \cup {"match"}
                  /\ pc' = "Rendering"
                  /\ error' = error
             ELSE /\ error' = Reraised(r.error)
                  /\ pc' = OnStageFailure("match")
                  /\ UNCHANGED <<redaction_areas, completed>>
    /\ UNCHANGED <<call, hostVars, ocr_response, pii_response, detect_input, full_text,
                   extracted_words, pii_values, render_input, result>>

\* Step 4: self.image_redaction_service.redact_image(source_image_bytes, redaction_areas)
Render ==
    /\ pc = "Rendering"
    /\ LET r == redact_image(request.content, redaction_areas)
       IN /\ render_input' = redaction_areas
          /\ log' = Append(log, "render")
          /\ IF r.kind = "ok"
             THEN /\ result' = r.value
                  /\ completed' = completed \cup {"render"}
                  /\ pc' = "Done"
                  /\ error' = error
             ELSE /\ error' = Reraised(r.error)
                  /\ pc' = OnStageFailure("render")
                  /\ UNCHANGED <<result, completed>>
    /\ UNCHANGED <<call, hostVars, ocr_response, pii_response, detect_input, full_text,
                   extracted_words, pii_values, match_result, redaction_areas>>

Next ==
    \/ HandleRequest
    \/ Extract
    \/ Detect
    \/ Match
    \/ Render
    \/ Respond
    \/ Finish

Spec == Init /\ [][Next]_vars

(***************************************************************************)
(* Properties.                                                             *)
(***************************************************************************)
Called(stage) == stage \in Range(log)

\* The matcher of the specification: w is selected when some PII value has a
\* whitespace-separated token c with lower(c) inside lower(w.content) or
\* lower(w.content) inside lower(c).
SelectedBySpec(w, values) ==
    \E v \in values : \E c \in Range(split(v)) :
        \/ IsSubstring(lower(c), lower(w.content))
        \/ IsSubstring(lower(w.content), lower(c))

SelectedWords(words, values) ==
    {w \in Range(words) : SelectedBySpec(w, values)}

\* How often the value w occurs in the list ws.
Occurrences(w, ws) == Cardinality({i \in 1..Len(ws) : ws[i] = w})

\* C1: whenever the matcher has run, it has returned exactly the words selected
\* by the case-insensitive two-way substring test against the tokens of the PII
\* values, and no other word.
C1_MatcherSelectsExactly ==
    Called("match") =>
        /\ match_result.kind = "ok"
        /\ Range(match_result.value) = SelectedWords(extracted_words, pii_values)

\* C2: matching never fails: whenever the matcher has run, it has returned a
\* list, and the orchestrator has not gone to Failed from the Matching step.
C2_MatchingNeverFails ==
    Called("match") =>
        /\ match_result.kind # "raise"
        /\ "match" \in completed
        /\ (pc = "Failed" => log[Len(log)] # "match")

\* The (PII value, component position) pairs that match the word w.
MatchingComponents(w, values) ==
    {pk \in UNION {{v} \X (1..Len(PiiComponents(v))) : v \in values} :
        ComponentMatches(PiiComponents(pk[1])[pk[2]], w)}

\* C3: a word matched by two or more PII components is in the matcher's result
\* exactly once, so it gives exactly one region.
C3_MatchedWordOnce ==
    Called("match") =>
        \A w \in Range(extracted_words) :
            Cardinality(MatchingComponents(w, pii_values)) >= 2 =>
                /\ match_result.kind = "ok"
                /\ Occurrences(w, match_result.value) = 1
                /\ Occurrences(w.bounding_box, redaction_areas) = 1

\* C4: when the detector has returned at least one PII value (and the uploaded
\* image is one the renderer can decode), redact_pii ends in Done and the regions
\* handed to the renderer are exactly the boxes of the words the matcher selects,
\* one region per matched word.
C4_RegionsAreMatchedBoxes ==
    (/\ pc \in Terminal
     /\ "detect" \in completed
     /\ pii_values # {}
     /\ request.content.decodable) =>
        /\ pc = "Done"
        /\ Called("render")
        /\ Range(render_input) =
               {w.bounding_box : w \in SelectedWords(extracted_words, pii_values)}
        /\ Len(render_input) = Cardinality(SelectedWords(extracted_words, pii_values))

\* The place of a stage in the order OCR, detection, matching, rendering.
Rank(stage) ==
    CASE stage = "ocr" -> 1 [] stage = "detect" -> 2
      [] stage = "match" -> 3 [] stage = "render" -> 4

\* The stage that is called in each state of the orchestrator.
StageOf(state) ==
    CASE state = "Extracting" -> "ocr" [] state = "Detecting" -> "detect"
      [] state = "Matching" -> "match" [] state = "Rendering" -> "render"

\* C5: the stages are called in the order OCR, detection, matching, rendering,
\* each at most once; detection gets the full text of the OCR answer; a stage is
\* called, or about to be called, only when every stage called before it has
\* returned without raising; only matching may be left out.
C5_StagesInOrder ==
    /\ \A i, j \in 1..Len(log) : i < j => Rank(log[i]) < Rank(log[j])
    /\ \A i \in 1..Len(log) : \A j \in 1..(i - 1) : log[j] \in completed
    /\ completed \subseteq Range(log)
    /\ Called("detect") => Called("ocr")
    /\ Called("match") => Called("detect")
    /\ Called("render") => Called("detect")
    /\ Called("detect") => /\ ~ocr_response.raises
                           /\ detect_input = ocr_response.content
    /\ pc \in {"Extracting", "Detecting", "Matching", "Rendering"} =>
           /\ ~Called(StageOf(pc))
           /\ Range(log) \subseteq completed
           /\ \A i \in 1..Len(log) : Rank(log[i]) < Rank(StageOf(pc))

W5_AllStagesRan ==
    /\ pc = "Done"
    /\ log = <<"ocr", "detect", "match", "render">>

\* The exception a stage raises for what it was given.
StageError(stage) ==
    CASE stage = "ocr" ->
            IF ocr_response.raises THEN ocr_response.error
            ELSE "ValueError: Polygon must have at least 4 points (8 coordinates)"
      [] stage = "detect" -> pii_response.error
      [] stage = "match" -> match_result.error
      [] stage = "render" -> "UnidentifiedImageError: cannot identify image file"

\* C6 (state part): Done gives image bytes with a content type and no error;
\* Failed gives the error of the stage that failed, unchanged, and no image; the
\* failed stage is the last one called; the answer is a file only after Done.
OutcomeIsDoneOrFailed ==
    /\ pc = "Done" =>
           /\ result # None
           /\ result.content.decodable
           /\ result.content_type = "image/png"
           /\ error = ""
           /\ Range(log) \subseteq completed
    /\ pc = "Failed" =>
           /\ result = None
           /\ log # <<>>
           /\ log[Len(log)] \notin completed
           /\ error = StageError(log[Len(log)])
    /\ hpc = "responded" /\ invocations = 1 =>
           /\ pc \in Terminal
           /\ response.kind = "file" <=> pc = "Done"
           /\ pc = "Failed" => response.kind = "json" /\ response.status = 500

Running == {"Extracting", "Detecting", "Matching", "Rendering"}

\* C6 (step part): every step of an invocation that has not ended calls one more
\* stage (there are four, so the invocation ends); once redact_pii is in Done or
\* Failed nothing of the invocation changes any more (no retry, no further stage)
\* until the request is over.
OutcomeIsFinal ==
    /\ pc \in Running => Len(log') = Len(log) + 1 /\ pc' \in Running \cup Terminal
    /\ pc \in Terminal => UNCHANGED pipeVars \/ pc' = "Idle"

\* C6: every invocation of redact_pii ends, in Done or in Failed; the two exclude
\* each other and are final; a failure of OCR, detection or rendering gives Failed
\* with that stage's error unchanged, no later stage run and no image returned.
C6_DoneXorFailed ==
    /\ []OutcomeIsDoneOrFailed
    /\ [][OutcomeIsFinal]_vars

W6_RendererFailed ==
    /\ pc = "Failed"
    /\ log = <<"ocr", "detect", "render">>
    /\ hpc = "responded"

\* The language service reported an error for the text: the call raised, or
\* the result of a document is an error result.
DetectionReportedError ==
    \/ pii_response.raises
    \/ \E i \in 1..Len(pii_response.docs) : pii_response.docs[i].is_error

\* C7: whenever the PII-detection collaborator has reported an error, the
\* detection stage has failed, the invocation is in Failed, the renderer has not
\* run and no image is returned as a success.
C7_DetectionErrorAborts ==
    (Called("detect") /\ DetectionReportedError) =>
        /\ "detect" \notin completed
        /\ pc = "Failed"
        /\ ~Called("render")
        /\ result = None
        /\ response.kind # "file"

\* Every value is empty or whitespace only (true of the empty set).
AllBlank(values) == \A v \in values : strip(v) = ""

\* What C8 says of the stages when detection returned no value or only blank
\* values: no value skips the matcher, blank values make it return no word, and
\* the renderer is called with the empty region set.
BlankPiiGivesNoRegion ==
    /\ pii_values = {} => ~Called("match")
    /\ pii_values # {} => match_result = Ok(<<>>)
    /\ Called("render")
    /\ render_input = <<>>

\* C8 as stated: when the detector returned no value, or only blank values, the
\* matcher is skipped or yields no word, the renderer runs with the empty region
\* set and the invocation ends in Done with a rendered image.
C8_BlankPiiEndsInDone ==
    (pc \in Terminal /\ "detect" \in completed /\ AllBlank(pii_values)) =>
        /\ BlankPiiGivesNoRegion
        /\ pc = "Done"
        /\ result # None

\* C8 as amended: ... the renderer runs with the empty region set, and the
\* invocation ends in Done with a rendered image when the renderer can decode the
\* uploaded bytes, and in Failed with the renderer's error when it cannot.
C8_BlankPiiRendersNoRegion ==
    (pc \in Terminal /\ "detect" \in completed /\ AllBlank(pii_values)) =>
        /\ BlankPiiGivesNoRegion
        /\ IF request.content.decodable
           THEN /\ pc = "Done"
                /\ result # None
                /\ result.content = SavePNG(OpenAsRGB(request.content))
           ELSE /\ pc = "Failed"
                /\ log[Len(log)] = "render"
                /\ result = None

W8_BlankValuesRendered ==
    /\ pc = "Done"
    /\ pii_values # {}
    /\ AllBlank(pii_values)
    /\ Called("match")

\* C9: a request whose payload exceeds the maximum size is answered with status
\* 413 and an error payload, and the pipeline is not invoked for it.
C9_TooLargeIs413 ==
    (hpc = "responded" /\ request.content_length > MAX_CONTENT_LENGTH) =>
        /\ response.kind = "json"
        /\ response.status = 413
        /\ invocations = 0
        /\ log = <<>>

\* The filename ends, whatever the case of its letters, in a dot followed by an
\* extension of the allow-list.
HasAllowedExtension(filename) ==
    \E e \in ALLOWED_EXTENSIONS :
        /\ Len(filename) > Len(e)
        /\ lower(SubSeq(filename, Len(filename) - Len(e), Len(filename))) = "." \o e

\* One of the four checks of the handler rejects the request.
FailsAChecks(req) ==
    \/ ~req.has_file
    \/ req.filename = ""
    \/ ~HasAllowedExtension(req.filename)
    \/ req.content.empty

\* C10: of the requests within the size limit, one that has no file part, an
\* empty filename, an extension outside the allow-list or empty content is
\* answered with 400 without the pipeline being invoked; every other one invokes
\* the pipeline exactly once and is answered with the image after Done and with
\* 500 and an error payload, no image, after Failed.
C10_HandlerAnswers ==
    (request # None /\ request.content_length <= MAX_CONTENT_LENGTH) =>
        IF FailsAChecks(request)
        THEN /\ hpc = "responded"
             /\ response.kind = "json"
             /\ response.status = 400
             /\ invocations = 0
             /\ pc = "Idle"
             /\ log = <<>>
        ELSE /\ invocations = 1
             /\ pc # "Idle"
             /\ hpc = "responded" =>
                    /\ pc \in Terminal
                    /\ pc = "Done" =>
                           /\ response = SendFile(result.content, result.content_type)
                           /\ response.status = 200
                    /\ pc = "Failed" =>
                           /\ response.kind = "json"
                           /\ response.status = 500

W10_ValidRequestAnswered ==
    /\ hpc = "responded"
    /\ request.filename = "scan.PNG"
    /\ invocations = 1
    /\ response.kind = "file"

(***************************************************************************)
(* BoundingBox.from_polygon and ImageRedactionService.redact_image called  *)
(* directly, on arguments drawn from bounded sets.                         *)
(***************************************************************************)
\* Longest flat coordinate list and longest list of regions that are tried.
MaxScalars == 10
MaxRegions == 2

SeqsUpTo(S, n) == UNION {[1..k -> S] : k \in 0..n}

Coordinates == {0, 3}

Polygons ==
    SeqsUpTo(Coordinates, MaxScalars)
    \cup {<<1, 0, 3, 1, 2, 2, 0, 1>>, <<4, 7, 1, 9, 6, 2, 5, 5, 0, 8>>, <<2, 2, 2, 2, 2, 2>>}

RegionBoxes ==
    {BoundingBox(x, y, wh[1], wh[2]) :
        x \in {0, 2}, y \in {0, 1}, wh \in {<<0, 0>>, <<1, 0>>, <<GridW, 1>>}}

SourceImages == {NotAnImage, ImageRGB, ImageRGBA, ImageL, ImageP}

FromPolygonCall(polygon) ==
    [op |-> "from_polygon", polygon |-> polygon, out |-> None]

RedactImageCall(image, regions) ==
    [op |-> "redact_image", image |-> image, regions |-> regions, out |-> None,
     again_regions |-> <<>>, again |-> None]

Calls ==
    {FromPolygonCall(polygon) : polygon \in Polygons}
    \cup {RedactImageCall(image, regions) :
            image \in SourceImages, regions \in SeqsUpTo(RegionBoxes, MaxRegions)}

CallInit ==
    /\ ServerStarted
    /\ call \in Calls

\* BoundingBox.from_polygon(polygon)
CallFromPolygon ==
    /\ call.op = "from_polygon"
    /\ call.out = None
    /\ call' = [call EXCEPT !.out = from_polygon(call.polygon)]
    /\ UNCHANGED <<hostVars, pipeVars>>

\* redact_image(source_image_bytes, redaction_areas)
CallRedactImage ==
    /\ call.op = "redact_image"
    /\ call.out = None
    /\ call' = [call EXCEPT !.out = redact_image(call.image, call.regions)]
    /\ UNCHANGED <<hostVars, pipeVars>>

\* redact_image on the bytes the first call returned, with no region or with the
\* same regions.
CallRedactImageAgain ==
    /\ call.op = "redact_image"
    /\ call.out.kind = "ok"
    /\ call.again = None
    /\ \E regions \in {<<>>, call.regions} :
        call' = [call EXCEPT !.again_regions = regions,
                             !.again = redact_image(call.out.value.content, regions)]
    /\ UNCHANGED <<hostVars, pipeVars>>

CallNext ==
    \/ CallFromPolygon
    \/ CallRedactImage
    \/ CallRedactImageAgain

CallSpec == CallInit /\ [][CallNext]_vars

(***************************************************************************)
(* C11 - BoundingBox.from_polygon                                          *)
(***************************************************************************)
\* The x values of a flat list are its 1st, 3rd, ... scalars, the y values its
\* 2nd, 4th, ...; its points are the complete pairs.
XValues(polygon) == {polygon[i] : i \in {j \in 1..Len(polygon) : j % 2 = 1}}
YValues(polygon) == {polygon[i] : i \in {j \in 1..Len(polygon) : j % 2 = 0}}
PointsOf(polygon) ==
    {<<polygon[2 * k - 1], polygon[2 * k]>> : k \in 1..(Len(polygon) \div 2)}

IsLeast(v, S) == v \in S /\ \A w \in S : v <= w
IsGreatest(v, S) == v \in S /\ \A w \in S : w <= v

FromPolygonReturned == call.op = "from_polygon" /\ call.out # None

\* C11: from_polygon on at least 4 pairs returns x = least x, y = least y,
\* width = greatest x - least x, height = greatest y - least y, hence width and
\* height are >= 0 and every input point lies inside the box; on fewer than 8
\* scalars it raises the invalid-geometry ValueError and returns no box.
C11_FromPolygonIsMinMaxBox ==
    FromPolygonReturned =>
        IF Len(call.polygon) >= 8
        THEN /\ call.out.kind = "ok"
             /\ LET box == call.out.value
                IN /\ IsLeast(box.x, XValues(call.polygon))
                   /\ IsLeast(box.y, YValues(call.polygon))
                   /\ IsGreatest(box.x + box.width, XValues(call.polygon))
                   /\ IsGreatest(box.y + box.height, YValues(call.polygon))
                   /\ box.width >= 0
                   /\ box.height >= 0
                   /\ \A pt \in PointsOf(call.polygon) :
                        /\ box.x <= pt[1] /\ pt[1] <= box.x + box.width
                        /\ box.y <= pt[2] /\ pt[2] <= box.y + box.height
        ELSE /\ call.out.kind = "raise"
             /\ call.out
                  = Raise("ValueError: Polygon must have at least 4 points (8 coordinates)")

\* A five-point polygon whose first point is not its minimum got its box.
W11_FivePointBox ==
    /\ FromPolygonReturned
    /\ call.polygon = <<4, 7, 1, 9, 6, 2, 5, 5, 0, 8>>
    /\ call.out = Ok(BoundingBox(0, 2, 6, 7))

(***************************************************************************)
(* C12 - what redact_image paints and what it leaves alone                 *)
(***************************************************************************)
RedactImageReturned ==
    call.op = "redact_image" /\ call.out # None /\ call.out.kind = "ok"

\* The pixel lies inside [x, y]..[x+width, y+height] of the region.
Covers(region, p) ==
    /\ region.x <= p[1] /\ p[1] <= region.x + region.width
    /\ region.y <= p[2] /\ p[2] <= region.y + region.height

CoveredBySome(regions, p) == \E i \in 1..Len(regions) : Covers(regions[i], p)

Reorderings(regions) ==
    {[i \in 1..Len(regions) |-> regions[f[i]]] : f \in Permutations(1..Len(regions))}

\* C12: after redact_image(img, regions) every pixel inside at least one region
\* is black, every pixel inside no region keeps the colour of the decoded,
\* RGB-normalised source, and any reordering of the regions gives the same output.
C12_PaintsRegionsOnly ==
    RedactImageReturned =>
        /\ \A p \in Grid :
             call.out.value.content.px[p]
               = IF CoveredBySome(call.regions, p) THEN <<0, 0, 0>>
                 ELSE OpenAsRGB(call.image)[p]
        /\ \A reordered \in Reorderings(call.regions) :
             redact_image(call.image, reordered) = call.out

\* Two different overlapping regions were painted on an image with transparency,
\* and one pixel stayed outside both.
W12_TwoOverlappingRegions ==
    /\ RedactImageReturned
    /\ call.image = ImageRGBA
    /\ Len(call.regions) = 2
    /\ call.regions[1] # call.regions[2]
    /\ \E p \in Grid : Covers(call.regions[1], p) /\ Covers(call.regions[2], p)
    /\ \E p \in Grid : Covers(call.regions[1], p) /\ ~Covers(call.regions[2], p)
    /\ \E p \in Grid :
         /\ ~CoveredBySome(call.regions, p)
         /\ call.out.value.content.px[p] # <<0, 0, 0>>

(***************************************************************************)
(* C13 - rendering what was already rendered                               *)
(***************************************************************************)
RenderedAgain ==
    call.op = "redact_image" /\ call.again # None

DecodedColour(bytes, p) ==
    LET v == bytes.px[p]
    IN CASE bytes.mode = "RGB"  -> <<v[1], v[2], v[3], 255>>
         [] bytes.mode = "RGBA" -> <<v[1], v[2], v[3], v[4]>>
         [] bytes.mode = "L"    -> <<v[1], v[1], v[1], 255>>
         [] bytes.mode = "P"    -> bytes.palette[v[1]] \o <<255>>

RenderedWithoutRegion == RedactImageReturned /\ call.regions = <<>>

HasShortPolygon(o) ==
    /\ ~o.raises
    /\ \E i \in 1..Len(o.pages) : \E j \in 1..Len(o.pages[i]) :
         Len(o.pages[i][j].polygon) < 4

ExtractedFromShortPolygon == Called("ocr") /\ HasShortPolygon(ocr_response)

\* C15: when one word of the OCR answer has fewer than 4 points, the extraction
\* raises as a whole: no text and no word comes out of it, the well-formed words
\* included; the invocation is Failed with the invalid-geometry error, extraction
\* is the only stage that ran, and neither the detector nor the renderer is called.
C15_ShortPolygonFailsInvocation ==
    ExtractedFromShortPolygon =>
        /\ extract_text_from_image(ocr_response).kind = "raise"
        /\ full_text = ""
        /\ extracted_words = <<>>
        /\ pc = "Failed"
        /\ error = "ValueError: Polygon must have at least 4 points (8 coordinates)"
        /\ log = <<"ocr">>
        /\ ~Called("detect")
        /\ ~Called("render")
        /\ pii_response = None
        /\ result = None

\* The OCR answer held a well-formed word next to a three-point one, and the
\* invocation failed.
W15_WellFormedWordLost ==
    /\ ExtractedFromShortPolygon
    /\ \E i \in 1..Len(ocr_response.pages) : \E j \in 1..Len(ocr_response.pages[i]) :
         Len(ocr_response.pages[i][j].polygon) >= 4
    /\ pc = "Failed"
    /\ hpc = "responded"

(***************************************************************************)
(* C16 - OCR words whose content is the empty string                       *)
(***************************************************************************)
HasNonBlankToken(values) == \E v \in values : strip(v) # ""

\* C16: whenever the matcher has run on words that include one with empty
\* content, that word is in the matcher's result and its box is among the
\* regions to redact if some PII value has a non-blank token, whatever the
\* token is; it is not in the result if every PII value is blank.
C16_EmptyWordSelectedByAnyPii ==
    Called("match") =>
        \A i \in 1..Len(extracted_words) :
            extracted_words[i].content = "" =>
                /\ match_result.kind = "ok"
                /\ IF HasNonBlankToken(pii_values)
                   THEN /\ extracted_words[i] \in Range(match_result.value)
                        /\ extracted_words[i].bounding_box \in Range(redaction_areas)
                   ELSE extracted_words[i] \notin Range(match_result.value)

====
